---- MODULE Spec2Model ----
(***************************************************************************)
(* The concurrent record store of web_template: an in-memory Database      *)
(* (entity table + user table) behind one std::sync::Mutex, written        *)
(* through to database.json after every mutation.                          *)
(*                                                                         *)
(* Two binaries share the pattern and are both modelled; `variant` says    *)
(* which one runs:                                                         *)
(*   "task"    src/src/code_template.rs  (tasks, plaintext passwords)      *)
(*   "service" src/src/main.rs           (services, bcrypt passwords)      *)
(***************************************************************************)
EXTENDS Integers, Sequences, FiniteSets, TLC

VARIABLES
    variant,    \* which binary runs
    phase,      \* "boot" before main built the AppState, "serving" after
    db,         \* the Database inside the Mutex: [entities, users]
    file,       \* content of database.json
    holder,     \* worker owning the MutexGuard, or NoWorker
    poisoned,   \* the Mutex's poison flag
    wk,         \* per worker: the handler it runs and where it is
    issued,     \* number of requests dispatched so far
    savedDb,    \* history: the Database as of the last successful save (or load)
    lastSave,   \* history: outcome of the most recent save_to_file call
    regPw       \* history: user id -> the password submitted when register
                \* last stored that id

vars == <<variant, phase, db, file, holder, poisoned, wk, issued,
          savedDb, lastSave, regPw>>

(***************************************************************************)
(* Bounds of the model.                                                    *)
(***************************************************************************)
NumWorkers == 2
MaxId == 2
MaxRequests == 2

Workers == 1..NumWorkers
Ids == 1..MaxId
NoWorker == 0

(***************************************************************************)
(* Strings.  A String is modelled by what the program can tell about it:   *)
(* fmt "text" is a string that is not a bcrypt hash, with the given bytes; *)
(* fmt "bcrypt" is a well-formed "$2b$<cost>$<salt><digest>" string.       *)
(***************************************************************************)
Text(bytes) == [fmt |-> "text", salt |-> 0, bytes |-> bytes]

\* bcrypt reads at most this many bytes of the NUL-terminated password.
BcryptMaxLen == 72

Salts == {1, 2}

Repeat(n, b) == [i \in 1..n |-> b]

ShortPw == Text(<<1>>)
LongPw == Text(Repeat(BcryptMaxLen, 1))
LongerPw == Text(Repeat(BcryptMaxLen, 1) \o <<2>>)

Passwords == {ShortPw, LongPw, LongerPw}
Usernames == {"u", "v"}

Prefix(s, n) == IF Len(s) > n THEN SubSeq(s, 1, n) ELSE s

\* bcrypt::hash: the password is NUL-terminated, cut to 72 bytes and hashed
\* with a fresh salt.
BcryptHash(pw, salt) ==
    [fmt |-> "bcrypt", salt |-> salt,
     bytes |-> Prefix(pw.bytes \o <<0>>, BcryptMaxLen)]

\* bcrypt::verify: Err on a string that is no bcrypt hash, otherwise whether
\* hashing the password with the stored salt gives the stored hash.
BcryptVerify(pw, stored) ==
    IF stored.fmt # "bcrypt" THEN "err"
    ELSE IF BcryptHash(pw, stored.salt) = stored THEN "true" ELSE "false"

(***************************************************************************)
(* Entities.  Task {id, name, completed}; Service {id, name, price: f32,   *)
(* duration}.  One record shape serves both: a Task has no price (NoF32)   *)
(* and a Service has completed = FALSE throughout.                         *)
(***************************************************************************)
\* An f32 is finite (its decimal exponent) or infinite; a JSON number is a
\* decimal exponent; JSON null is a token of its own.
F32MaxExp == 38
NoF32 == [k |-> "none", e |-> 0]
F32Fin(e) == [k |-> "fin", e |-> e]
F32Inf == [k |-> "inf", e |-> 0]
JsonNum(e) == [k |-> "num", e |-> e]
JsonNull == [k |-> "null", e |-> 0]
JsonAbsent == [k |-> "none", e |-> 0]

\* serde's f32 from a JSON number: parsed as f64, then cast `as f32`, which
\* maps a value above f32::MAX to infinity.
F32FromJson(tok) ==
    IF tok.k = "num"
    THEN [ok |-> TRUE, v |-> IF tok.e > F32MaxExp THEN F32Inf ELSE F32Fin(tok.e)]
    ELSE [ok |-> FALSE, v |-> NoF32]

\* serde_json's f32 to JSON: a number when finite, null otherwise.
F32ToJson(v) == IF v.k = "fin" THEN JsonNum(v.e) ELSE JsonNull

Task(id, completed) ==
    [id |-> id, name |-> "n", completed |-> completed, price |-> NoF32]
Service(id, price) ==
    [id |-> id, name |-> "n", completed |-> FALSE, price |-> price]

\* Request bodies as the Json extractor hands them to the handler: a Task
\* done or not, a Service priced 1 or 1e39.
EntityValues(v, i) ==
    IF v = "task"
    THEN {Task(i, c) : c \in BOOLEAN}
    ELSE {Service(i, F32FromJson(JsonNum(e)).v) : e \in {0, F32MaxExp + 1}}
EntityBodies(v) == UNION {EntityValues(v, i) : i \in Ids}

User(id, username, password) ==
    [id |-> id, username |-> username, password |-> password]
UserBodies == {User(i, n, p) : i \in Ids, n \in Usernames, p \in Passwords}

(***************************************************************************)
(* Database and its table operations.                                     *)
(***************************************************************************)
EmptyMap == <<>>

\* HashMap::insert
MapInsert(m, k, v) == [x \in (DOMAIN m) \cup {k} |-> IF x = k THEN v ELSE m[x]]
\* HashMap::remove
MapRemove(m, k) == [x \in (DOMAIN m) \ {k} |-> m[x]]

NewDatabase == [entities |-> EmptyMap, users |-> EmptyMap]

\* An insert that replaces the table by the one new entry.
InsertAlone(d, e) == [d EXCEPT !.entities = MapInsert(EmptyMap, e.id, e)]

Insert(d, e) == [d EXCEPT !.entities = MapInsert(d.entities, e.id, e)]
\* An update that requires the id to exist.
UpdateIfPresent(d, e) == IF e.id \in DOMAIN d.entities
                         THEN [d EXCEPT !.entities = MapInsert(d.entities, e.id, e)]
                         ELSE d
Update(d, e) == [d EXCEPT !.entities = MapInsert(d.entities, e.id, e)]
\* A delete that clears the table.
DeleteClears(d, id) == [d EXCEPT !.entities = EmptyMap]
Delete(d, id) == [d EXCEPT !.entities = MapRemove(d.entities, id)]
Get(d, id) == IF id \in DOMAIN d.entities
              THEN [found |-> TRUE, v |-> d.entities[id]]
              ELSE [found |-> FALSE, v |-> Task(0, FALSE)]
\* A get_all that yields the entity of the least id only.
GetAllFirst(d) ==
    LET ks == {k \in DOMAIN d.entities : \A j \in DOMAIN d.entities : k <= j}
    IN [e \in {d.entities[k] : k \in ks} |-> 1]
\* self.tasks.values().collect(): a Vec whose order is the map's; what it
\* holds is the bag of the values, each with the number of times it occurs.
GetAll(d) ==
    [e \in {d.entities[k] : k \in DOMAIN d.entities} |->
       Cardinality({k \in DOMAIN d.entities : d.entities[k] = e})]
InsertUser(d, u) == [d EXCEPT !.users = MapInsert(d.users, u.id, u)]
\* A lookup that does not compare the username.
AnyUser(d, name) == DOMAIN d.users
\* users.values().find(..): the first match in the map's iteration order,
\* which is any of the matching users.
GetUserByName(d, name) == {k \in DOMAIN d.users : d.users[k].username = name}

(***************************************************************************)
(* Persistence: the snapshot document and database.json.                   *)
(*                                                                         *)
(* A document has two top-level maps, "tasks" or "services" and "users",   *)
(* keyed by the decimal string of the id.  database.json is missing, or    *)
(* holds text that is no JSON ("garbage"), or a strict prefix of a         *)
(* document ("partial"), or a document ("doc").                            *)
(***************************************************************************)
RECURSIVE DecStr(_)
\* u64 as a JSON map key: its decimal digits.
DecStr(n) == IF n < 10 THEN <<n>> ELSE DecStr(n \div 10) \o <<n % 10>>

RECURSIVE ParseU64(_)
\* a JSON map key back to u64.
ParseU64(s) == IF Len(s) = 0 THEN 0
               ELSE 10 * ParseU64(SubSeq(s, 1, Len(s) - 1)) + s[Len(s)]

EntityKey(v) == IF v = "task" THEN "tasks" ELSE "services"

\* Serialize for Task / Service: the price field exists for a Service only.
EntityToJson(v, e) ==
    [id |-> e.id, name |-> e.name, completed |-> e.completed,
     price |-> IF v = "task" THEN JsonAbsent ELSE F32ToJson(e.price)]

\* Deserialize for Task / Service.
EntityFromJson(v, j) ==
    IF v = "task"
    THEN [ok |-> TRUE, v |-> [id |-> j.id, name |-> j.name,
                              completed |-> j.completed, price |-> NoF32]]
    ELSE [ok |-> F32FromJson(j.price).ok,
          v |-> [id |-> j.id, name |-> j.name, completed |-> j.completed,
                 price |-> F32FromJson(j.price).v]]

\* Serialize / Deserialize for User: three fields that JSON carries as they
\* are.
UserToJson(u) == [id |-> u.id, username |-> u.username, password |-> u.password]
UserFromJson(j) == [id |-> j.id, username |-> j.username, password |-> j.password]

\* A HashMap<u64, _> as a JSON object and back.
JsonKeys(m) == {DecStr(i) : i \in DOMAIN m}
MapKeys(j) == {ParseU64(k) : k \in DOMAIN j}

\* serde_json::to_string(&self)
ToJson(v, d) ==
    [kind |-> "doc", ekey |-> EntityKey(v),
     entities |-> [k \in JsonKeys(d.entities) |->
                     EntityToJson(v, d.entities[ParseU64(k)])],
     users |-> [k \in JsonKeys(d.users) |-> UserToJson(d.users[ParseU64(k)])]]

MissingFile == [kind |-> "missing", ekey |-> "", entities |-> <<>>, users |-> <<>>]
GarbageFile == [kind |-> "garbage", ekey |-> "", entities |-> <<>>, users |-> <<>>]
PartialFile == [kind |-> "partial", ekey |-> "", entities |-> <<>>, users |-> <<>>]

\* serde_json::from_str::<Database>: Err unless the text is a document whose
\* entity map has this binary's field name and whose every value parses.
FromJson(v, f) ==
    IF /\ f.kind = "doc"
       /\ f.ekey = EntityKey(v)
       /\ \A k \in DOMAIN f.entities : EntityFromJson(v, f.entities[k]).ok
    THEN [ok |-> TRUE,
          db |-> [entities |-> [i \in MapKeys(f.entities) |->
                                  EntityFromJson(v, f.entities[DecStr(i)]).v],
                  users |-> [i \in MapKeys(f.users) |->
                               UserFromJson(f.users[DecStr(i)])]]]
    ELSE [ok |-> FALSE, db |-> NewDatabase]

\* Database::load_from_file
LoadFromFile(v, f) == FromJson(v, f)

\* main that never reads the snapshot.
AlwaysNew(v, f) == NewDatabase

\* main: match Database::load_from_file() { Ok(db) => db, Err(_) => new() }
LoadOrNew(v, f) == IF LoadFromFile(v, f).ok THEN LoadFromFile(v, f).db
                   ELSE NewDatabase

\* save_to_file serializing self.tasks / self.services instead of self.
SaveEntitiesOnly(v, d, f, outcome) ==
    CASE outcome = "ok" -> ToJson(v, [d EXCEPT !.users = EmptyMap])
      [] outcome = "create_err" -> f
      [] outcome = "write_err" -> PartialFile

\* save_to_file opening database.json without truncating it: what was there
\* stays, and the new text makes no document with it.
SaveWithoutTruncate(v, d, f, outcome) ==
    CASE outcome = "ok" -> IF f.kind = "missing" THEN ToJson(v, d) ELSE GarbageFile
      [] outcome = "create_err" -> f
      [] outcome = "write_err" -> PartialFile

\* Database::save_to_file, by how far it gets: "ok"; "create_err" when
\* File::create fails (the file is untouched); "write_err" when write_all
\* fails after File::create truncated the file.
SaveOutcomes == {"ok", "create_err", "write_err"}
SaveToFile(v, d, f, outcome) ==
    CASE outcome = "ok" -> ToJson(v, d)
      [] outcome = "create_err" -> f
      [] outcome = "write_err" -> PartialFile

\* Snapshots a process may find at startup.
SampleDb(v) ==
    [entities |-> MapInsert(EmptyMap, 1,
                    IF v = "task" THEN Task(1, TRUE) ELSE Service(1, F32Fin(0))),
     users |-> MapInsert(EmptyMap, 1, User(1, "u", ShortPw))]
InitFiles(v) == {MissingFile, GarbageFile, ToJson(v, SampleDb(v))}

(***************************************************************************)
(* Handlers.  A worker runs one handler at a time:                         *)
(*   idle -> waiting (dispatched, blocked in lock()) -> locked (owns the   *)
(*   guard) -> saving (table mutated, save_to_file pending) -> replying    *)
(*   (response built, guard not yet dropped) -> idle                       *)
(* and -> panicking when an expect() fails, until the unwind drops what    *)
(* the handler owns.                                                       *)
(***************************************************************************)
NoBody == <<>>
Idle == [pc |-> "idle", kind |-> "none", arg |-> NoBody,
         status |-> "none", body |-> NoBody, saves |-> 0]

IdBodies == {[id |-> i] : i \in Ids}
LoginBodies == {User(1, n, p) : n \in Usernames, p \in Passwords}

\* The routes of each binary.
Kinds(v) == IF v = "task"
            THEN {"create", "read", "read_all", "update", "delete",
                  "register", "login"}
            ELSE {"create", "read", "read_all", "register", "login"}

Mutating == {"create", "update", "delete", "register"}

LockIgnoresGuard == TRUE

\* Mutex::lock blocks until no guard is alive.
LockAvailable == holder = NoWorker

\* Where a handler is between lock() returning and its guard being dropped.
InCritical(w) == wk[w].pc \in {"locked", "saving", "replying"}
                 \/ (wk[w].pc = "panicking" /\ holder = w)

Ghosts == <<savedDb, lastSave, regPw>>

Init ==
    /\ variant \in {"task", "service"}
    /\ phase = "boot"
    /\ db = NewDatabase
    /\ file \in InitFiles(variant)
    /\ holder = NoWorker
    /\ poisoned = FALSE
    /\ wk = [w \in Workers |-> Idle]
    /\ issued = 0
    /\ savedDb = NewDatabase
    /\ lastSave = "none"
    /\ regPw = EmptyMap

\* main: load the snapshot or start empty, wrap it in the Mutex, then serve.
Main ==
    /\ phase = "boot"
    /\ db' = LoadOrNew(variant, file)
    /\ savedDb' = LoadOrNew(variant, file)
    /\ phase' = "serving"
    /\ UNCHANGED <<variant, file, holder, poisoned, wk, issued, lastSave, regPw>>

\* The server dispatches a request to a worker, which enters the handler.
\* The request's body or path, `arg` below, is an input of the handler; it
\* is first used by the handler's table operation, and enters the model there.
Call(w, kind) ==
    /\ phase = "serving"
    /\ wk[w].pc = "idle"
    /\ issued < MaxRequests
    /\ kind \in Kinds(variant)
    /\ wk' = [wk EXCEPT ![w] = [Idle EXCEPT !.pc = "waiting", !.kind = kind]]
    /\ issued' = issued + 1
    /\ UNCHANGED <<variant, phase, db, file, holder, poisoned, Ghosts>>

\* lock() whose poison error is discarded (into_inner): the guard, always.
AcquireAnyway(w) ==
    /\ wk[w].pc = "waiting"
    /\ LockAvailable
    /\ holder' = w
    /\ wk' = [wk EXCEPT ![w].pc = "locked"]
    /\ UNCHANGED <<variant, phase, db, file, poisoned, issued, Ghosts>>

\* app_state.db.lock().expect(..) on a sound mutex: the guard.
Acquire(w) ==
    /\ wk[w].pc = "waiting"
    /\ LockAvailable
    /\ ~poisoned
    /\ holder' = w
    /\ wk' = [wk EXCEPT ![w].pc = "locked"]
    /\ UNCHANGED <<variant, phase, db, file, poisoned, issued, Ghosts>>

\* app_state.db.lock().expect(..) on a poisoned mutex: lock() returns Err
\* (holding the guard inside it) and expect panics.
AcquirePoisoned(w) ==
    /\ wk[w].pc = "waiting"
    /\ LockAvailable
    /\ poisoned
    /\ holder' = w
    /\ wk' = [wk EXCEPT ![w].pc = "panicking", ![w].status = "panic_lock"]
    /\ UNCHANGED <<variant, phase, db, file, poisoned, issued, Ghosts>>

\* create_task / create_service: db.insert(..)
Create(w, arg) ==
    /\ wk[w].pc = "locked" /\ wk[w].kind = "create"
    /\ db' = Insert(db, arg)
    /\ wk' = [wk EXCEPT ![w].arg = arg, ![w].pc = "saving"]
    /\ UNCHANGED <<variant, phase, file, holder, poisoned, issued, Ghosts>>

\* update_task: db.update(..)
UpdateTask(w, arg) ==
    /\ wk[w].pc = "locked" /\ wk[w].kind = "update"
    /\ db' = Update(db, arg)
    /\ wk' = [wk EXCEPT ![w].arg = arg, ![w].pc = "saving"]
    /\ UNCHANGED <<variant, phase, file, holder, poisoned, issued, Ghosts>>

\* delete_task: db.delete(..)
DeleteTask(w, arg) ==
    /\ wk[w].pc = "locked" /\ wk[w].kind = "delete"
    /\ db' = Delete(db, arg.id)
    /\ wk' = [wk EXCEPT ![w].arg = arg, ![w].pc = "saving"]
    /\ UNCHANGED <<variant, phase, file, holder, poisoned, issued, Ghosts>>

\* A read that goes on to save_to_file as the mutating handlers do.
ReadAndSave(w, arg) ==
    /\ wk[w].pc = "locked" /\ wk[w].kind = "read"
    /\ LET r == Get(db, arg.id) IN
       wk' = [wk EXCEPT ![w].arg = arg, ![w].pc = "saving",
                        ![w].status = IF r.found THEN "ok" ELSE "not_found",
                        ![w].body = IF r.found THEN r.v ELSE NoBody]
    /\ UNCHANGED <<variant, phase, db, file, holder, poisoned, issued, Ghosts>>

\* read_task / read_service
Read(w, arg) ==
    /\ wk[w].pc = "locked" /\ wk[w].kind = "read"
    /\ LET r == Get(db, arg.id) IN
       wk' = [wk EXCEPT ![w].arg = arg, ![w].pc = "replying",
                        ![w].status = IF r.found THEN "ok" ELSE "not_found",
                        ![w].body = IF r.found THEN r.v ELSE NoBody]
    /\ UNCHANGED <<variant, phase, db, file, holder, poisoned, issued, Ghosts>>

\* read_all_tasks / read_all_services
ReadAll(w) ==
    /\ wk[w].pc = "locked" /\ wk[w].kind = "read_all"
    /\ wk' = [wk EXCEPT ![w].pc = "replying", ![w].status = "ok",
                        ![w].body = GetAll(db)]
    /\ UNCHANGED <<variant, phase, db, file, holder, poisoned, issued, Ghosts>>

\* register of code_template.rs: the user is stored as submitted.
RegisterPlain(w, arg) ==
    /\ variant = "task"
    /\ wk[w].pc = "locked" /\ wk[w].kind = "register"
    /\ db' = InsertUser(db, arg)
    /\ regPw' = MapInsert(regPw, arg.id, arg.password)
    /\ wk' = [wk EXCEPT ![w].arg = arg, ![w].pc = "saving"]
    /\ UNCHANGED <<variant, phase, file, holder, poisoned, issued, savedDb,
                   lastSave>>

\* register of main.rs: hash(..).expect(..), then the user with the hash.
RegisterHashed(w, arg) ==
    /\ variant = "service"
    /\ wk[w].pc = "locked" /\ wk[w].kind = "register"
    /\ \E salt \in Salts :
         db' = InsertUser(db, User(arg.id, arg.username,
                                   BcryptHash(arg.password, salt)))
    /\ regPw' = MapInsert(regPw, arg.id, arg.password)
    /\ wk' = [wk EXCEPT ![w].arg = arg, ![w].pc = "saving"]
    /\ UNCHANGED <<variant, phase, file, holder, poisoned, issued, savedDb,
                   lastSave>>

\* register of main.rs when hash() returns Err (the salt could not be
\* drawn): expect panics with the guard alive.
RegisterHashFails(w) ==
    /\ variant = "service"
    /\ wk[w].pc = "locked" /\ wk[w].kind = "register"
    /\ wk' = [wk EXCEPT ![w].pc = "panicking", ![w].status = "panic_hash"]
    /\ UNCHANGED <<variant, phase, db, file, holder, poisoned, issued, Ghosts>>

\* The password test of login: == in code_template.rs, verify(..) in main.rs.
PasswordCheck(v, submitted, stored) ==
    IF v = "task"
    THEN IF stored = submitted THEN "true" ELSE "false"
    ELSE BcryptVerify(submitted, stored)

\* The response of login for the outcome of the password test.
LoginStatus(check) ==
    CASE check = "true" -> "ok"
      [] check = "false" -> "bad_request"
      [] check = "err" -> "panic_verify"

\* login
Login(w, arg) ==
    /\ wk[w].pc = "locked" /\ wk[w].kind = "login"
    /\ LET found == GetUserByName(db, arg.username) IN
       IF found = {}
       THEN wk' = [wk EXCEPT ![w].arg = arg, ![w].pc = "replying",
                             ![w].status = "unauthorized"]
       ELSE \E k \in found :
              LET st == LoginStatus(PasswordCheck(variant, arg.password,
                                                  db.users[k].password)) IN
              wk' = [wk EXCEPT ![w].arg = arg,
                               ![w].pc = IF st = "panic_verify"
                                         THEN "panicking" ELSE "replying",
                               ![w].status = st]
    /\ UNCHANGED <<variant, phase, db, file, holder, poisoned, issued, Ghosts>>

\* db.save_to_file().expect(..) in place of `let _ = ..`.
AfterSaveExpect(outcome) == IF outcome = "ok" THEN "replying" ELSE "panicking"

\* `let _ = ..`: the Result of save_to_file is dropped, whatever it is, and
\* the handler goes on to build its response.
AfterSave(outcome) == "replying"

\* let _ = db.save_to_file(); HttpResponse::Ok().finish()
Save(w) ==
    /\ wk[w].pc = "saving"
    /\ \E outcome \in SaveOutcomes :
         /\ file' = SaveToFile(variant, db, file, outcome)
         /\ lastSave' = outcome
         /\ savedDb' = IF outcome = "ok" THEN db ELSE savedDb
         /\ wk' = [wk EXCEPT ![w].pc = AfterSave(outcome),
                             ![w].status = IF AfterSave(outcome) = "replying"
                                           THEN "ok" ELSE "panic_save",
                             ![w].saves = wk[w].saves + 1]
    /\ UNCHANGED <<variant, phase, db, holder, poisoned, issued, regPw>>

\* A handler that returns without dropping its guard (mem::forget).
ReturnKeepsGuard(w) ==
    /\ wk[w].pc = "replying"
    /\ wk' = [wk EXCEPT ![w] = Idle]
    /\ UNCHANGED <<variant, phase, db, file, holder, poisoned, issued, Ghosts>>

\* The handler returns: the guard is dropped and the response goes out.
Return(w) ==
    /\ wk[w].pc = "replying"
    /\ holder' = IF holder = w THEN NoWorker ELSE holder
    /\ wk' = [wk EXCEPT ![w] = Idle]
    /\ UNCHANGED <<variant, phase, db, file, poisoned, issued, Ghosts>>

\* The panic unwinds the handler: a guard dropped while panicking poisons
\* the mutex.
Unwind(w) ==
    /\ wk[w].pc = "panicking"
    /\ holder' = IF holder = w THEN NoWorker ELSE holder
    /\ poisoned' = (poisoned \/ holder = w)
    /\ wk' = [wk EXCEPT ![w] = Idle]
    /\ UNCHANGED <<variant, phase, db, file, issued, Ghosts>>

Next ==
    \/ Main
    \/ \E w \in Workers : \E kind \in Kinds(variant) : Call(w, kind)
    \/ \E w \in Workers : Acquire(w)
    \/ \E w \in Workers : AcquirePoisoned(w)
    \/ \E w \in Workers : \E arg \in EntityBodies(variant) : Create(w, arg)
    \/ \E w \in Workers : \E arg \in EntityBodies(variant) : UpdateTask(w, arg)
    \/ \E w \in Workers : \E arg \in IdBodies : DeleteTask(w, arg)
    \/ \E w \in Workers : \E arg \in IdBodies : Read(w, arg)
    \/ \E w \in Workers : ReadAll(w)
    \/ \E w \in Workers : \E arg \in UserBodies : RegisterPlain(w, arg)
    \/ \E w \in Workers : \E arg \in UserBodies : RegisterHashed(w, arg)
    \/ \E w \in Workers : RegisterHashFails(w)
    \/ \E w \in Workers : \E arg \in LoginBodies : Login(w, arg)
    \/ \E w \in Workers : Save(w)
    \/ \E w \in Workers : Return(w)
    \/ \E w \in Workers : Unwind(w)

Spec == Init /\ [][Next]_vars

(***************************************************************************)
(* Properties.                                                             *)
(***************************************************************************)
\* The handler of w has applied its mutation and has not returned yet.
MutationInFlight(w) ==
    wk[w].kind \in Mutating /\ wk[w].pc \in {"saving", "replying"}

\* The step is one of worker w's and of nobody else's.
StepOf(w) == wk'[w] # wk[w] /\ \A o \in Workers \ {w} : wk'[o] = wk[o]

MutexInv ==
    /\ Cardinality({w \in Workers : InCritical(w)}) <= 1
    /\ \A w \in Workers : InCritical(w) => holder = w

AccessByHolder ==
    /\ \A w \in Workers :
         (wk[w].pc \in {"locked", "saving"} /\ wk'[w] # wk[w])
           => holder = w /\ StepOf(w)
    /\ (phase = "serving" /\ (db' # db \/ file' # file))
         => holder \in Workers /\ InCritical(holder) /\ StepOf(holder)

\* C1: mutual exclusion.  At most one handler is between lock() and the drop
\* of its guard, that handler is the holder of the mutex, and every step
\* that reads a table (a handler leaving "locked"), writes a table or writes
\* database.json is a step of the holder.
C1_MutualExclusion == []MutexInv /\ [][AccessByHolder]_vars

\* C1 witness: one handler writes the snapshot while another is blocked in
\* lock().
C1_Witness ==
    \E a, b \in Workers :
      /\ a # b
      /\ wk[a].pc = "saving" /\ holder = a
      /\ wk[b].pc = "waiting"

\* The keys at which two maps differ.
MapDiff(a, b) ==
    {k \in (DOMAIN a) \cup (DOMAIN b) :
       \/ k \notin DOMAIN a
       \/ k \notin DOMAIN b
       \/ a[k] # b[k]}

\* The (table, key) pairs at which two Databases, or two documents, differ.
StoreDiff(a, b) ==
    {<<"entities", k>> : k \in MapDiff(a.entities, b.entities)}
      \cup {<<"users", k>> : k \in MapDiff(a.users, b.users)}

\* What a snapshot file holds: its document, or nothing when there is none.
SnapshotDoc(v, f) == IF f.kind = "doc" THEN f ELSE ToJson(v, NewDatabase)

\* The (table, key) the handler of w writes.
Touched(w) ==
    <<IF wk[w].kind = "register" THEN "users" ELSE "entities", wk[w].arg.id>>
TouchedInDoc(w) ==
    <<IF wk[w].kind = "register" THEN "users" ELSE "entities",
      DecStr(wk[w].arg.id)>>

Reflected(v, d, w) ==
    LET a == wk[w].arg IN
    CASE wk[w].kind \in {"create", "update"} ->
           a.id \in DOMAIN d.entities /\ d.entities[a.id] = a
      [] wk[w].kind = "delete" -> a.id \notin DOMAIN d.entities
      [] wk[w].kind = "register" ->
           /\ a.id \in DOMAIN d.users
           /\ d.users[a.id].id = a.id
           /\ d.users[a.id].username = a.username
           /\ PasswordCheck(v, a.password, d.users[a.id].password) = "true"
      [] OTHER -> TRUE

\* A mutating handler has its 200 response ready.
Acknowledging(w) ==
    wk[w].kind \in Mutating /\ wk[w].pc = "replying" /\ wk[w].status = "ok"

\* C3 as claimed: when a mutation is acknowledged, database.json reflects it,
\* so the store a restart loads from the file contains it.
C3_WriteThrough ==
    \A w \in Workers :
      Acknowledging(w) =>
        /\ file = ToJson(variant, db)
        /\ Reflected(variant, LoadOrNew(variant, file), w)

\* C5 as claimed: whenever no handler holds the lock, database.json is what
\* it was at startup (no document, or the document the store was loaded
\* from) or the full serialization of a state the store held - also after a
\* save that failed part-way.
C5_SnapshotValid ==
    (phase = "serving" /\ holder = NoWorker) =>
      \/ file.kind \in {"missing", "garbage"}
      \/ file = ToJson(variant, savedDb)

\* C5 amended: whenever no handler holds the lock, database.json is what it
\* was at startup, or the full serialization of the store as it was at the
\* last successful save - unless a save failed part-way (write_all, after
\* File::create truncated the file) and none succeeded since: then the file
\* is a torn prefix, which is no serialization of any state.
C5_SnapshotValidUnlessTorn ==
    (phase = "serving" /\ holder = NoWorker) =>
      \/ /\ file.kind \in {"missing", "garbage"}
         /\ lastSave \in {"none", "create_err"}
         /\ savedDb = NewDatabase
      \/ file = ToJson(variant, savedDb)
      \/ /\ file = PartialFile
         /\ lastSave \in {"write_err", "create_err"}

\* C5 witness: no handler holds the lock, the last save could not open the
\* file, and database.json still is the serialization of the earlier state.
C5_Witness ==
    /\ holder = NoWorker
    /\ lastSave = "create_err"
    /\ file.kind = "doc" /\ file = ToJson(variant, savedDb)
    /\ db # savedDb

\* The response of read_task / read_service is what the table holds.
ReadSeesStore(w) ==
    LET r == Get(db, wk[w].arg.id) IN
      IF r.found THEN wk[w].status = "ok" /\ wk[w].body = r.v
      ELSE wk[w].status = "not_found"

SaveOnceInv ==
    \A w \in Workers :
      /\ wk[w].pc = "replying" /\ wk[w].kind \in Mutating =>
           wk[w].saves = 1 /\ Reflected(variant, db, w) /\ ENABLED Return(w)
      /\ wk[w].pc # "replying" \/ wk[w].kind \notin Mutating => wk[w].saves = 0
      /\ wk[w].pc = "replying" /\ wk[w].kind = "read" => ReadSeesStore(w)

SaveOnceStep ==
    /\ \A w \in Workers :
         /\ wk[w].pc = "saving" /\ wk'[w] # wk[w] =>
              /\ wk'[w].pc = "replying" /\ wk'[w].saves = 1
              /\ db' = db /\ holder' = w
              /\ \/ lastSave' = "ok" /\ file' = ToJson(variant, db)
                 \/ lastSave' = "create_err" /\ file' = file
                 \/ lastSave' = "write_err" /\ file' = PartialFile
         /\ wk[w].pc = "replying" /\ wk'[w] # wk[w] =>
              /\ wk'[w].pc = "idle"
              /\ holder' = NoWorker /\ poisoned' = poisoned
              /\ db' = db /\ file' = file
    /\ file' # file => \E w \in Workers : wk[w].pc = "saving" /\ StepOf(w)

\* C6: a failed save is not fatal and is not retried.  A mutating handler
\* calls save_to_file exactly once; whatever it returns, the mutation stays in
\* the table (and a later read answers from the table), the handler goes on
\* to its response, returns and frees the lock without poisoning it; a save
\* that fails leaves database.json unchanged or torn, and the file changes
\* in no step other than a save.
C6_SaveFailureIgnored == []SaveOnceInv /\ [][SaveOnceStep]_vars

\* C6 witness: a read is answered with an entity that a handler whose save
\* failed put in the table and that no snapshot holds.
C6_Witness ==
    \E w \in Workers :
      /\ wk[w].kind = "read" /\ wk[w].pc = "replying" /\ wk[w].status = "ok"
      /\ lastSave \in {"create_err", "write_err"}
      /\ ~Get(savedDb, wk[w].arg.id).found
      /\ file.kind # "doc"

\* C7: startup always produces a store.  Before main has built the store no
\* handler runs and main can take its step whatever database.json holds;
\* right after it, the store is empty when the file is missing or malformed
\* and holds exactly the file's content when the file is a snapshot.
C7_StartupAlwaysSucceeds ==
    /\ phase = "boot" =>
         /\ ENABLED Main
         /\ \A w \in Workers : wk[w] = Idle
         /\ holder = NoWorker /\ issued = 0
    /\ (phase = "serving" /\ issued = 0) =>
         IF file.kind = "doc"
         THEN ToJson(variant, db) = file /\ db = SampleDb(variant)
         ELSE db = NewDatabase

\* C7 witness: the process serves with an empty store after starting on a
\* malformed database.json.
C7_Witness ==
    phase = "serving" /\ file.kind = "garbage" /\ db = NewDatabase /\ issued > 0

\* C8 as claimed: whatever state the store is in, a successful save
\* followed by a load gives the same store.
C8_RoundTrip ==
    phase = "serving" =>
      LET r == LoadFromFile(variant, SaveToFile(variant, db, file, "ok")) IN
        r.ok /\ r.db = db

\* A login handler that got past lock() has its outcome.
LoginDecided(w) ==
    /\ wk[w].kind = "login"
    /\ wk[w].pc \in {"replying", "panicking"}
    /\ wk[w].status # "panic_lock"

\* C9 as claimed: unauthorized exactly when no user has the username;
\* otherwise, for the one user that has it, accept when the password
\* verifies and bad request when it does not; and for a user stored by
\* register(u, p), accept exactly when the submitted password is p.
C9_LoginOutcome ==
    \A w \in Workers :
      LoginDecided(w) =>
        LET a == wk[w].arg
            found == GetUserByName(db, a.username)
        IN /\ (found = {}) <=> (wk[w].status = "unauthorized")
           /\ \A k \in found :
                found = {k} =>
                  LET chk == PasswordCheck(variant, a.password,
                                           db.users[k].password)
                  IN /\ chk = "true" => wk[w].status = "ok"
                     /\ chk = "false" => wk[w].status = "bad_request"
                     /\ k \in DOMAIN regPw =>
                          IF a.password = regPw[k]
                          THEN wk[w].status = "ok"
                          ELSE wk[w].status = "bad_request"

\* C10 as claimed: a login that finds a user whose stored password is no
\* well-formed hash is answered as bad credentials and returns normally; no
\* login panics in verify.
C10_MalformedHashRejected ==
    \A w \in Workers :
      LoginDecided(w) /\ variant = "service" =>
        LET found == GetUserByName(db, wk[w].arg.username) IN
          /\ wk[w].status # "panic_verify"
          /\ (found # {} /\ \A k \in found : db.users[k].password.fmt # "bcrypt")
               => wk[w].pc = "replying" /\ wk[w].status = "bad_request"

(***************************************************************************)
(* N concurrent inserts with distinct ids against an empty store: request  *)
(* number k is a create of id k, handled by worker k, for k = 1..N with    *)
(* N = NumWorkers; the handlers interleave as the lock lets them.          *)
(***************************************************************************)
InitEmpty == Init /\ file \in {MissingFile, GarbageFile}

CallCreate(w) == w = issued + 1 /\ Call(w, "create")

NextCreates ==
    \/ Main
    \/ \E w \in Workers : CallCreate(w)
    \/ \E w \in Workers : Acquire(w)
    \/ \E w \in Workers : \E arg \in EntityValues(variant, w) : Create(w, arg)
    \/ \E w \in Workers : Save(w)
    \/ \E w \in Workers : Return(w)

SpecCreates == InitEmpty /\ [][NextCreates]_vars

\* Every one of the N creates has returned.
AllCreatesDone ==
    /\ phase = "serving"
    /\ issued = NumWorkers
    /\ \A w \in Workers : wk[w].pc = "idle"

\* C4: serialized mutations.  Under SpecCreates, a create that has inserted
\* its entity finds it in the table unchanged until it returns, and once all
\* N creates have returned and the saves succeeded (the last one is the one
\* that counts: it writes the whole store) the entity table holds exactly
\* the ids 1..N, each once, and database.json holds exactly their
\* serializations.
C4_SerializedCreates ==
    /\ \A w \in Workers :
         MutationInFlight(w) =>
           w \in DOMAIN db.entities /\ db.entities[w] = wk[w].arg
    /\ (AllCreatesDone /\ lastSave = "ok") =>
         /\ DOMAIN db.entities = Workers
         /\ \A i \in Workers : db.entities[i] \in EntityValues(variant, i)
         /\ file.kind = "doc"
         /\ DOMAIN file.entities = {DecStr(i) : i \in Workers}
         /\ Cardinality(DOMAIN file.entities) = NumWorkers
         /\ \A i \in Workers :
              file.entities[DecStr(i)] = EntityToJson(variant, db.entities[i])
         /\ DOMAIN file.users = {}

\* C4 witness: all N creates have returned, the last save succeeded and the
\* snapshot holds N entities.
C4_Witness ==
    /\ AllCreatesDone /\ lastSave = "ok"
    /\ Cardinality(DOMAIN file.entities) = NumWorkers
    /\ NumWorkers > 1

(***************************************************************************)
(* Panics and the poisoned lock.                                           *)
(***************************************************************************)
\* C11 as claimed: a register whose hash() failed ends without effect on the
\* tables, the snapshot or the lock: when its handler terminates, the store
\* and database.json are as before and the mutex is free and as sound as it
\* was, so that later handlers acquire it.
C11_HashFailureLocal ==
    [][\A w \in Workers :
         (wk[w].status = "panic_hash" /\ wk'[w] # wk[w]) =>
           /\ db' = db /\ file' = file
           /\ holder' = NoWorker
           /\ poisoned' = poisoned]_vars

\* With the mutex poisoned, nobody is past lock().
NoAccessWhenPoisoned ==
    poisoned =>
      \A w \in Workers :
        /\ wk[w].pc \in {"idle", "waiting", "panicking"}
        /\ wk[w].pc = "panicking" => wk[w].status = "panic_lock"
        /\ wk[w].status \notin {"ok", "not_found", "unauthorized", "bad_request"}
        /\ wk[w].body = NoBody

\* With the mutex poisoned, no step writes a table or the snapshot, the
\* poison stays, and a handler leaving lock() leaves it panicking.
PoisonedStep ==
    poisoned =>
      /\ db' = db /\ file' = file /\ poisoned'
      /\ \A w \in Workers :
           (wk[w].pc = "waiting" /\ wk'[w] # wk[w]) =>
             wk'[w].pc = "panicking" /\ wk'[w].status = "panic_lock"

\* C12: a poisoned lock is fatal for every handler and never bypassed.  Once
\* the mutex is poisoned no handler gets past lock(): none reads or writes a
\* table, none writes database.json, none has a response (success, not
\* found or other) computed from the store; each panics in expect.
C12_PoisonIsFatal == []NoAccessWhenPoisoned /\ [][PoisonedStep]_vars

\* C12 witness: a handler panics in lock().expect on the mutex that an
\* earlier handler's panic poisoned, the store holding data.
C12_Witness ==
    /\ poisoned
    /\ db # NewDatabase
    /\ \E w \in Workers : wk[w].pc = "panicking" /\ wk[w].status = "panic_lock"

(***************************************************************************)
(* The entity table as the handlers see it.                                *)
(***************************************************************************)
\* The step is the table write of a create or update handler of w, or of a
\* delete handler of w.
WritesEntity(w) ==
    wk[w].pc = "locked" /\ wk'[w].pc = "saving"
      /\ wk[w].kind \in {"create", "update"}
RemovesEntity(w) ==
    wk[w].pc = "locked" /\ wk'[w].pc = "saving" /\ wk[w].kind = "delete"

\* A create or update of entity e makes the table hold e, unchanged, at e.id
\* (whether or not the id was there) and touches no other id; the table
\* changes in no step other than a create, update or delete; and a read
\* answers with what the table holds at that moment.
LastWriteStep ==
    /\ \A w \in Workers :
         WritesEntity(w) =>
           LET e == wk'[w].arg IN
             /\ DOMAIN db'.entities = (DOMAIN db.entities) \cup {e.id}
             /\ db'.entities[e.id] = e
             /\ \A i \in (DOMAIN db.entities) \ {e.id} :
                  db'.entities[i] = db.entities[i]
    /\ (phase = "serving" /\ db'.entities # db.entities) =>
         \E w \in Workers : StepOf(w) /\ (WritesEntity(w) \/ RemovesEntity(w))
    /\ \A w \in Workers :
         (wk[w].pc = "locked" /\ wk[w].kind = "read" /\ wk'[w] # wk[w]) =>
           LET i == wk'[w].arg.id IN
             /\ wk'[w].pc = "replying"
             /\ IF i \in DOMAIN db.entities
                THEN wk'[w].status = "ok" /\ wk'[w].body = db.entities[i]
                ELSE wk'[w].status = "not_found"

\* Until it returns, a create, update or read has the table agree with it.
LastWriteInv ==
    \A w \in Workers :
      /\ (wk[w].kind \in {"create", "update"} /\ MutationInFlight(w)) =>
           Get(db, wk[w].arg.id) = [found |-> TRUE, v |-> wk[w].arg]
      /\ (wk[w].kind = "read" /\ wk[w].pc = "replying") => ReadSeesStore(w)

\* C13: last write wins.  read-one(id) answers with the entity given to the
\* most recent create or update of that id, every field as given, unless a
\* delete of the id followed; update does what create does, on an id that
\* exists (full replacement) or not (creation).
C13_LastWriteWins == []LastWriteInv /\ [][LastWriteStep]_vars

\* C13 witness: a read is answered with the value that a create or update
\* (its save failed, so the snapshot still has the old value) put in place
\* of the one the store was loaded with.
C13_Witness ==
    \E w \in Workers :
      /\ wk[w].kind = "read" /\ wk[w].pc = "replying" /\ wk[w].status = "ok"
      /\ wk[w].body = Task(1, FALSE)
      /\ savedDb = SampleDb("task") /\ file = ToJson("task", savedDb)

\* A delete removes its id and nothing else, in either table, and is
\* answered 200 whether or not the id was there; an id that is not in the
\* table gets there only by a create or update of that id.
DeleteStep ==
    /\ \A w \in Workers :
         RemovesEntity(w) =>
           LET i == wk'[w].arg.id IN
             /\ DOMAIN db'.entities = (DOMAIN db.entities) \ {i}
             /\ \A k \in DOMAIN db'.entities : db'.entities[k] = db.entities[k]
             /\ db'.users = db.users
             /\ i \notin DOMAIN db.entities => db' = db
    /\ \A w \in Workers :
         (wk[w].kind = "delete" /\ wk[w].pc = "saving" /\ wk'[w] # wk[w]) =>
           wk'[w].pc = "replying" /\ wk'[w].status = "ok"
    /\ \A i \in Ids :
         (phase = "serving" /\ i \notin DOMAIN db.entities
            /\ i \in DOMAIN db'.entities) =>
           \E w \in Workers : WritesEntity(w) /\ wk'[w].arg.id = i

\* Until a delete returns its id is absent, and a read of an absent id is
\* answered not found.
DeleteInv ==
    \A w \in Workers :
      /\ (wk[w].kind = "delete" /\ MutationInFlight(w)) =>
           ~Get(db, wk[w].arg.id).found
      /\ (wk[w].kind = "read" /\ wk[w].pc = "replying"
            /\ wk[w].arg.id \notin DOMAIN db.entities) =>
           wk[w].status = "not_found" /\ wk[w].body = NoBody

\* C14: delete semantics.  After delete(id), read-one(id) is answered not
\* found until a create or update of that id; a delete of an absent id
\* changes neither table and is answered with success; a delete removes no
\* other id.
C14_DeleteSemantics == []DeleteInv /\ [][DeleteStep]_vars

\* C14 witness: a read of the id the store was loaded with is answered not
\* found after a delete of it (whose save failed, so the snapshot still has
\* it).
C14_Witness ==
    \E w \in Workers :
      /\ wk[w].kind = "read" /\ wk[w].pc = "replying"
      /\ wk[w].status = "not_found" /\ wk[w].arg.id = 1
      /\ savedDb = SampleDb("task") /\ file = ToJson("task", savedDb)

\* The bag b holds exactly the live entities of table t, each once.
ExactlyTheLive(b, t) ==
    /\ DOMAIN b = {t[i] : i \in DOMAIN t}
    /\ \A i \in DOMAIN t : b[t[i]] = 1
    /\ Cardinality(DOMAIN b) = Cardinality(DOMAIN t)

\* read-all computes its answer from the table as it is at that step.
ReadAllStep ==
    \A w \in Workers :
      (wk[w].pc = "locked" /\ wk[w].kind = "read_all" /\ wk'[w] # wk[w]) =>
        /\ wk'[w].pc = "replying" /\ wk'[w].status = "ok"
        /\ ExactlyTheLive(wk'[w].body, db.entities)

\* C15: read-all answers with exactly the live entities: as many as there
\* are ids created or updated and not deleted since, each live id once and
\* with its current value - whatever other handlers are in flight, since
\* the table cannot change between the call and the answer.
C15_ReadAllIsLive ==
    /\ [](\A w \in Workers :
            (wk[w].kind = "read_all" /\ wk[w].pc = "replying") =>
              wk[w].status = "ok" /\ ExactlyTheLive(wk[w].body, db.entities))
    /\ [][ReadAllStep]_vars

\* C15 witness: a read-all is answered with two entities, the one the store
\* was loaded with and the one a create or update added.
C15_Witness ==
    \E w \in Workers :
      /\ wk[w].kind = "read_all" /\ wk[w].pc = "replying"
      /\ Cardinality(DOMAIN wk[w].body) = 2

(***************************************************************************)
(* The user table.                                                         *)
(***************************************************************************)
\* C16 as claimed: a user record, once in the table, stays there with its
\* id, username and password, whatever operation runs - another register
\* with any id included.
C16_UsersImmutable ==
    [][phase = "serving" =>
         \A k \in DOMAIN db.users :
           k \in DOMAIN db'.users /\ db'.users[k] = db.users[k]]_vars

\* C17 as claimed: every user record that register stored holds, in the
\* table and in a snapshot written since, a password that is a salted hash
\* of the password submitted, is not that password, and verifies it.
C17_HashNotPlaintext ==
    \A k \in (DOMAIN regPw) \cap (DOMAIN db.users) :
      /\ db.users[k].password.fmt = "bcrypt"
      /\ db.users[k].password # regPw[k]
      /\ BcryptVerify(regPw[k], db.users[k].password) = "true"
      /\ lastSave = "ok" =>
           /\ DecStr(k) \in DOMAIN file.users
           /\ file.users[DecStr(k)].password = db.users[k].password

(***************************************************************************)
(* Progress.  A worker thread that can take a step of its handler takes    *)
(* one: the handlers have no await between lock() and their return, so a   *)
(* handler that is not blocked in lock() runs on, and lock() returns once  *)
(* the mutex stays free.                                                   *)
(***************************************************************************)
\* The steps of the handler that worker w runs.
HandlerStep(w) ==
    \/ Acquire(w)
    \/ AcquirePoisoned(w)
    \/ \E arg \in EntityBodies(variant) : Create(w, arg)
    \/ \E arg \in EntityBodies(variant) : UpdateTask(w, arg)
    \/ \E arg \in IdBodies : DeleteTask(w, arg)
    \/ \E arg \in IdBodies : Read(w, arg)
    \/ ReadAll(w)
    \/ \E arg \in UserBodies : RegisterPlain(w, arg)
    \/ \E arg \in UserBodies : RegisterHashed(w, arg)
    \/ RegisterHashFails(w)
    \/ \E arg \in LoginBodies : Login(w, arg)
    \/ Save(w)
    \/ Return(w)
    \/ Unwind(w)

Fairness == \A w \in Workers : WF_vars(HandlerStep(w))

SpecFair == Init /\ [][Next]_vars /\ Fairness

\* Some handler has panicked.
Panicked == poisoned \/ \E w \in Workers : wk[w].pc = "panicking"

\* While a handler is in progress, some handler can take a step.
NoDeadlock ==
    (\E w \in Workers : wk[w].pc # "idle") =>
      \E w \in Workers : ENABLED HandlerStep(w)

\* C18: under fair scheduling every handler runs to completion.  A handler
\* that owns the guard gives it up (also when its save fails); unless some
\* handler panics, a handler blocked in lock() gets the guard and reaches
\* its response; every handler ends; and while a handler is in progress
\* some handler can step.
C18_HandlersComplete ==
    /\ \A w \in Workers : (holder = w) ~> (holder # w)
    /\ \A w \in Workers :
         (wk[w].pc = "waiting") ~> (wk[w].pc = "replying" \/ Panicked)
    /\ \A w \in Workers : (wk[w].pc # "idle") ~> (wk[w].pc = "idle")
    /\ []NoDeadlock

\* C18 witness: a handler whose save failed is about to return and free the
\* mutex that another handler is blocked on, no handler having panicked.
C18_Witness ==
    \E a, b \in Workers :
      /\ wk[a].pc = "replying" /\ wk[a].kind \in Mutating /\ holder = a
      /\ lastSave \in {"create_err", "write_err"}
      /\ wk[b].pc = "waiting"
      /\ ~Panicked

(***************************************************************************)
(* Handlers that only read.                                                *)
(***************************************************************************)
ReadOnly == {"read", "read_all", "login"}

\* No step of a read-only handler writes a table or database.json, or is a
\* call of save_to_file.
ReadOnlyStep ==
    \A w \in Workers :
      (wk[w].kind \in ReadOnly /\ wk'[w] # wk[w]) =>
        /\ db' = db /\ file' = file
        /\ lastSave' = lastSave /\ savedDb' = savedDb
        /\ wk'[w].saves = 0 /\ wk'[w].pc # "saving"

\* C19: read-one, read-all and login have no effect.  Whatever they answer
\* (found, not found, accept, unauthorized, bad request), no step of theirs
\* changes the entity table, the user table or database.json, and none is
\* a save.
C19_ReadOnlyFrame ==
    /\ [](\A w \in Workers :
            wk[w].kind \in ReadOnly => wk[w].saves = 0 /\ wk[w].pc # "saving")
    /\ [][ReadOnlyStep]_vars

\* C19 witness: a login is rejected as wrong password on a store that holds
\* data, database.json being as the last save wrote it.
C19_Witness ==
    \E w \in Workers :
      /\ wk[w].kind = "login" /\ wk[w].pc = "replying"
      /\ wk[w].status = "bad_request"
      /\ lastSave = "ok" /\ file = ToJson(variant, db)
      /\ db.users # EmptyMap

\* The stored users that have the username of record a, and those among them
\* whose stored password the password of a matches.
Named(a) == {k \in DOMAIN db.users : db.users[k].username = a.username}
Matching(a) ==
    {k \in Named(a) :
       PasswordCheck(variant, a.password, db.users[k].password) = "true"}

\* C20: login is sound also when usernames are shared.  A login is accepted
\* only if some stored user has the submitted username and a password the
\* submitted one matches, and is answered unauthorized only if no stored
\* user has the username.  (Which of several users of that name is tested
\* is not fixed: the witness is a login rejected as wrong password while a
\* matching user exists.)
C20_LoginSound ==
    \A w \in Workers :
      (wk[w].kind = "login" /\ wk[w].pc = "replying") =>
        /\ wk[w].status \in {"ok", "bad_request", "unauthorized"}
        /\ wk[w].status = "ok" => Matching(wk[w].arg) # {}
        /\ wk[w].status = "unauthorized" => Named(wk[w].arg) = {}
        /\ wk[w].status = "bad_request" =>
             \E k \in Named(wk[w].arg) : k \notin Matching(wk[w].arg)

\* C20 witness: two users share the username, the submitted password
\* matches one of them, and the login is rejected as wrong password.
C20_Witness ==
    \E w \in Workers :
      /\ wk[w].kind = "login" /\ wk[w].pc = "replying"
      /\ wk[w].status = "bad_request"
      /\ Cardinality(Named(wk[w].arg)) = 2
      /\ Matching(wk[w].arg) # {}

====
